---- MODULE Spec2Model ----
(***************************************************************************)
(* Weather data quality monitoring: the validator                          *)
(* (src/src/validators/quality_checks.py) and the per-city monitoring      *)
(* cycle (src/src/monitoring/integrator.py).                               *)
(*                                                                         *)
(* A DataFrame is [columns |-> set of column names, rows |-> sequence of   *)
(* records].  A cell is <<>> (None / NaN / NaT) or <<v>>; the city cell is *)
(* a plain string.  A timestamp is a number of minutes relative to the     *)
(* current time (0 is now, -61 is 61 minutes ago).  A Python exception     *)
(* leaving a function is the value of the function's ..._raises predicate. *)
(***************************************************************************)
EXTENDS Integers, Sequences, FiniteSets, Bags, TLC

VARIABLES
    cities,      \* integrator.cities: the configured list of cities
    pc,          \* position of run_monitoring_cycle: idle, gathering, returned
    df,          \* the batch fetched in the current cycle
    fetched,     \* outcome of the data source call of the current cycle
    fetchCalls,  \* data source calls made in the current cycle
    task,        \* per configured entry: position of process_single_city
    payload,     \* per configured entry: the payload it posted
    posts,       \* per configured entry: POST requests made
    log,         \* per configured entry: the message it logged
    response,    \* per configured entry: the service's answer to its POST
    received,    \* bag of payloads the monitoring service recorded in this cycle
    vdf,         \* validator harness: the DataFrame a validator method is called on
    vout         \* validator harness: the method called and what it returned

vars == <<cities, pc, df, fetched, fetchCalls, task, payload, posts, log,
          response, received, vdf, vout>>

(* ------------------------------ bounds -------------------------------- *)

MaxRows == 3
MaxCities == 2

(* ------------------------------- cells -------------------------------- *)

Null == <<>>
Some(x) == <<x>>

AllColumns ==
    {"city", "timestamp", "temperature", "humidity", "pressure",
     "wind_speed", "weather_condition"}

\* df[col]: the column as a sequence of cells
Column(d, col) == [i \in 1..Len(d.rows) |-> d.rows[i][col]]

NotNull(c) == c # Null
\* the non-null values of a sequence of cells, in order
Values(cells) ==
    LET nn == SelectSeq(cells, NotNull)
    IN  [i \in 1..Len(nn) |-> nn[i][1]]

HasNull(cells) == \E i \in 1..Len(cells) : cells[i] = Null

Abs(x) == IF x < 0 THEN -x ELSE x

RECURSIVE SeqMax(_)
SeqMax(s) ==
    IF Len(s) = 1 THEN s[1]
    ELSE LET m == SeqMax(Tail(s)) IN IF s[1] > m THEN s[1] ELSE m

\* df[df['city'] == city]
Slice(d, city) ==
    [columns |-> d.columns,
     rows |-> SelectSeq(d.rows, LAMBDA r : r.city = city)]

\* df['city'].unique(): the cities in order of first appearance
RECURSIVE UniqueFrom(_, _)
UniqueFrom(s, seen) ==
    IF s = <<>> THEN <<>>
    ELSE IF s[1] \in seen THEN UniqueFrom(Tail(s), seen)
    ELSE <<s[1]>> \o UniqueFrom(Tail(s), seen \cup {s[1]})

UniqueCities(d) == UniqueFrom([i \in 1..Len(d.rows) |-> d.rows[i].city], {})

\* df.empty: some axis has length 0
Empty(d) == d.columns = {} \/ d.rows = <<>>

(* ----------------------------- issues --------------------------------- *)

Issue(kind, column, city, value) ==
    [kind |-> kind, column |-> column, city |-> city, value |-> value]

RECURSIVE Flatten(_)
Flatten(ss) == IF ss = <<>> THEN <<>> ELSE ss[1] \o Flatten(Tail(ss))

(* --------------------- WeatherDataValidator --------------------------- *)

\* self.validation_rules, in the dict's insertion order
RuleColumns == <<"temperature", "humidity", "pressure">>

validation_rules ==
    [temperature |-> [min |-> -50, max |-> 50, std_dev_threshold |-> 3],
     humidity    |-> [min |-> 0, max |-> 100, std_dev_threshold |-> 3],
     pressure    |-> [min |-> 870, max |-> 1090, std_dev_threshold |-> 3]]

Expectation(type, column, lo, hi) ==
    [type |-> type, column |-> column, min_value |-> lo, max_value |-> hi]

\* the seven null checks followed by the two range checks
create_expectation_suite ==
    LET columns_to_check ==
            <<"city", "timestamp", "temperature", "humidity", "pressure",
              "wind_speed", "weather_condition">>
        null_check_expectations ==
            [i \in 1..Len(columns_to_check) |->
                Expectation("expect_column_values_to_not_be_null",
                            columns_to_check[i], 0, 0)]
        range_check_expectations ==
            << Expectation("expect_column_values_to_be_between", "temperature",
                           validation_rules.temperature.min,
                           validation_rules.temperature.max),
               Expectation("expect_column_values_to_be_between", "humidity",
                           validation_rules.humidity.min,
                           validation_rules.humidity.max) >>
    IN  null_check_expectations \o range_check_expectations

\* a city cell is a plain string and is never null
CellIsNull(d, i, col) == col # "city" /\ d.rows[i][col] = Null

\* a mutant of ExpectationSuccess: the interval of a range check is open
ExpectationSuccessStrict(d, e) ==
    /\ e.column \in d.columns
    /\ IF e.type = "expect_column_values_to_not_be_null"
       THEN \A i \in 1..Len(d.rows) : ~CellIsNull(d, i, e.column)
       ELSE \A i \in 1..Len(d.rows) :
               ~CellIsNull(d, i, e.column) =>
                   /\ d.rows[i][e.column][1] > e.min_value
                   /\ d.rows[i][e.column][1] < e.max_value

\* result.success of one expectation run on the frame.  An expectation on a
\* column the frame lacks does not succeed; on a frame with no rows every
\* expectation on an existing column succeeds; the range check ignores nulls.
ExpectationSuccess(d, e) ==
    /\ e.column \in d.columns
    /\ IF e.type = "expect_column_values_to_not_be_null"
       THEN \A i \in 1..Len(d.rows) : ~CellIsNull(d, i, e.column)
       ELSE \A i \in 1..Len(d.rows) :
               ~CellIsNull(d, i, e.column) =>
                   /\ d.rows[i][e.column][1] >= e.min_value
                   /\ d.rows[i][e.column][1] <= e.max_value

\* the "Data quality check failed" issues, in suite order
QualityIssues(d) ==
    LET suite == create_expectation_suite
        failed == SelectSeq(suite, LAMBDA e : ~ExpectationSuccess(d, e))
    IN  [i \in 1..Len(failed) |->
            Issue("quality", failed[i].column, failed[i].type, 0)]

current_time == 0
default_max_age_minutes == 60

\* df['city'] and, once there is a city, city_data['timestamp'] raise KeyError
\* on a frame without the column
check_data_freshness_raises(d) ==
    \/ "city" \notin d.columns
    \/ d.rows # <<>> /\ "timestamp" \notin d.columns

\* a mutant of FreshnessIssue: an age equal to the limit is flagged too
FreshnessIssueInclusive(d, city, max_age_minutes) ==
    LET stamps == Values(Column(Slice(d, city), "timestamp"))
    IN  IF stamps = <<>> THEN <<>>
        ELSE LET largest_timestamp == SeqMax(stamps)
                 age == current_time - largest_timestamp
             IN  IF age >= max_age_minutes
                 THEN <<Issue("stale", "timestamp", city, age)>>
                 ELSE <<>>

\* one issue per city whose most recent timestamp is older than the limit
\* (a city whose timestamps are all NaT has age NaN, which is not > limit)
FreshnessIssue(d, city, max_age_minutes) ==
    LET stamps == Values(Column(Slice(d, city), "timestamp"))
    IN  IF stamps = <<>> THEN <<>>
        ELSE LET largest_timestamp == SeqMax(stamps)
                 age == current_time - largest_timestamp
             IN  IF age > max_age_minutes
                 THEN <<Issue("stale", "timestamp", city, age)>>
                 ELSE <<>>

check_data_freshness(d, max_age_minutes) ==
    LET cs == UniqueCities(d)
    IN  Flatten([i \in 1..Len(cs) |-> FreshnessIssue(d, cs[i], max_age_minutes)])

Sorted(s) == SortSeq(s, LAMBDA a, b : a < b)

\* twice the median of a non-empty sequence of integers (the median of an
\* even number of values is the mean of the two middle ones)
Median2(s) ==
    LET t == Sorted(s)
        n == Len(t)
    IN  IF n % 2 = 1 THEN 2 * t[(n + 1) \div 2]
        ELSE t[n \div 2] + t[n \div 2 + 1]

\* df[column].dtype in ['int64', 'float64']: a column that holds a number;
\* a column of None only has dtype object
NumericDtype(d, col) == Values(Column(d, col)) # <<>>

\* 2 * |x_i - median|, per row
Deviations2(xs) == [i \in 1..Len(xs) |-> Abs(2 * xs[i] - Median2(xs))]

RECURSIVE SeqSum(_)
SeqSum(s) == IF s = <<>> THEN 0 ELSE s[1] + SeqSum(Tail(s))

\* a mutant of Mad4: the mean absolute deviation in place of the median one
Mad4Mean(xs) == (2 * SeqSum(Deviations2(xs))) \div Len(xs)

\* 4 * mad = 2 * median(2 * |x_i - median|)
Mad4(xs) == Median2(Deviations2(xs))

\* modified_zscores[i] > threshold, where
\* modified_zscores = |0.6745 * (x - median) / mad|.  With mad = 0 the
\* division yields inf for x # median (inf > threshold) and NaN for
\* x = median (NaN > threshold is False).
ScoreExceeds(xs, i, threshold) ==
    LET dev2 == Deviations2(xs)[i]
        mad4 == Mad4(xs)
    IN  IF mad4 = 0 THEN dev2 # 0
        ELSE 6745 * 2 * dev2 > threshold * 10000 * mad4

\* the anomalies of one column, in row order.  A NaN in the column makes
\* np.median, hence mad and every score, NaN: nothing is flagged.
ColumnAnomalies(d, col) ==
    IF col \notin d.columns \/ ~NumericDtype(d, col) THEN <<>>
    ELSE IF HasNull(Column(d, col)) THEN <<>>
    ELSE LET xs == Values(Column(d, col))
             idx == SelectSeq([i \in 1..Len(xs) |-> i],
                        LAMBDA i : ScoreExceeds(xs, i,
                                       validation_rules[col].std_dev_threshold))
         IN  [k \in 1..Len(idx) |->
                 Issue("anomaly", col, d.rows[idx[k]].city, xs[idx[k]])]

detect_anomalies(d) ==
    Flatten([k \in 1..Len(RuleColumns) |-> ColumnAnomalies(d, RuleColumns[k])])

\* a mutant of Hot: (city_data['temperature'] > 35).all()
HotAll(cd) ==
    \A i \in 1..Len(cd.rows) :
        cd.rows[i].temperature # Null /\ cd.rows[i].temperature[1] > 35

\* (city_data['temperature'] > 35).any()
Hot(cd) ==
    \E i \in 1..Len(cd.rows) :
        cd.rows[i].temperature # Null /\ cd.rows[i].temperature[1] > 35

\* (city_data['humidity'] < 10).any()
Dry(cd) ==
    \E i \in 1..Len(cd.rows) :
        cd.rows[i].humidity # Null /\ cd.rows[i].humidity[1] < 10

\* city_data['pressure'].diff().abs(): the differences of rows adjacent in
\* the frame's row order, NaN (dropped by max) where either value is null
PressureDiffs(cd) ==
    LET p == Column(cd, "pressure")
        idx == SelectSeq([i \in 1..Len(p) |-> i],
                   LAMBDA i : i > 1 /\ p[i] # Null /\ p[i - 1] # Null)
    IN  [k \in 1..Len(idx) |-> Abs(p[idx[k]][1] - p[idx[k] - 1][1])]

\* `and` evaluates city_data['humidity'] only when the temperature test is
\* True; city_data['pressure'] is read only for more than one record
CityPatternRaises(cd) ==
    \/ "temperature" \notin cd.columns
    \/ Hot(cd) /\ "humidity" \notin cd.columns
    \/ Len(cd.rows) > 1 /\ "pressure" \notin cd.columns

CityPatternIssues(cd, city) ==
    (IF Hot(cd) /\ Dry(cd)
     THEN <<Issue("temperature_humidity", "", city, 0)>> ELSE <<>>)
    \o
    (IF Len(cd.rows) > 1 /\ PressureDiffs(cd) # <<>>
        /\ SeqMax(PressureDiffs(cd)) > 20
     THEN <<Issue("pressure_change", "pressure", city, SeqMax(PressureDiffs(cd)))>>
     ELSE <<>>)

validate_weather_patterns_raises(d) ==
    \/ "city" \notin d.columns
    \/ \E i \in 1..Len(d.rows) : CityPatternRaises(Slice(d, d.rows[i].city))

validate_weather_patterns(d) ==
    LET cs == UniqueCities(d)
    IN  Flatten([i \in 1..Len(cs) |-> CityPatternIssues(Slice(d, cs[i]), cs[i])])

validate_data_raises(d) ==
    check_data_freshness_raises(d) \/ validate_weather_patterns_raises(d)

\* a mutant of VerdictStatus: a single issue does not fail the verdict
VerdictStatusLenient(all_issues) ==
    IF Len(all_issues) > 1 THEN "failed" ELSE "passed"

\* 'status': 'failed' if all_issues else 'passed'
VerdictStatus(all_issues) == IF all_issues # <<>> THEN "failed" ELSE "passed"

\* a mutant of validate_data: 'total_records' is len(df.columns)
validate_data_counts_columns(d) ==
    IF validate_data_raises(d)
    THEN [raised |-> TRUE, status |-> "", issues |-> <<>>,
          total_records |-> 0, cities |-> <<>>]
    ELSE LET all_issues ==
                 QualityIssues(d)
                 \o check_data_freshness(d, default_max_age_minutes)
                 \o detect_anomalies(d)
                 \o validate_weather_patterns(d)
         IN  [raised |-> FALSE,
              status |-> VerdictStatus(all_issues),
              issues |-> all_issues,
              total_records |-> Cardinality(d.columns),
              cities |-> UniqueCities(d)]

\* the returned dict, or raised = TRUE when an exception leaves the method
validate_data(d) ==
    IF validate_data_raises(d)
    THEN [raised |-> TRUE, status |-> "", issues |-> <<>>,
          total_records |-> 0, cities |-> <<>>]
    ELSE LET all_issues ==
                 QualityIssues(d)
                 \o check_data_freshness(d, default_max_age_minutes)
                 \o detect_anomalies(d)
                 \o validate_weather_patterns(d)
         IN  [raised |-> FALSE,
              status |-> VerdictStatus(all_issues),
              issues |-> all_issues,
              total_records |-> Len(d.rows),
              cities |-> UniqueCities(d)]

(* ------------------- WeatherMonitoringIntegrator ---------------------- *)

\* float(city_data[col].mean()): sum and count of the non-null values
\* (count 0 is NaN)
Mean(cells) ==
    LET xs == Values(cells)
    IN  [sum |-> SeqSum(xs), count |-> Len(xs)]

\* city_data.isnull().sum().sum(): the null cells over every column of the frame
NullCells(cd) ==
    Cardinality({<<i, col>> \in (1..Len(cd.rows)) \X cd.columns :
                    CellIsNull(cd, i, col)})

MetricColumns == <<"temperature", "humidity", "pressure", "wind_speed">>

\* city_data[col] raises KeyError on a frame without the column
calculate_metrics_raises(d, city) ==
    \/ "city" \notin d.columns
    \/ /\ ~Empty(Slice(d, city))
       /\ \E k \in 1..Len(MetricColumns) : MetricColumns[k] \notin d.columns

NoMetrics ==
    [empty |-> TRUE,
     temperature |-> [sum |-> 0, count |-> 0],
     humidity |-> [sum |-> 0, count |-> 0],
     pressure |-> [sum |-> 0, count |-> 0],
     wind_speed |-> [sum |-> 0, count |-> 0],
     missing_cells |-> 0, total_cells |-> 0]

\* data_completeness is (1 - missing_cells / total_cells) * 100
calculate_metrics(d, city) ==
    LET city_data == Slice(d, city)
    IN  IF Empty(city_data) THEN NoMetrics
        ELSE [empty |-> FALSE,
              temperature |-> Mean(Column(city_data, "temperature")),
              humidity |-> Mean(Column(city_data, "humidity")),
              pressure |-> Mean(Column(city_data, "pressure")),
              wind_speed |-> Mean(Column(city_data, "wind_speed")),
              missing_cells |-> NullCells(city_data),
              total_cells |-> Len(city_data.rows) * Cardinality(city_data.columns)]

\* the JSON body of the POST to /record-validation
Payload(city, validation_result, metrics) ==
    [status |-> validation_result.status,
     city |-> city,
     issues |-> validation_result.issues,
     metrics |-> metrics]

NoPayload == Payload("", [status |-> "", issues |-> <<>>], NoMetrics)

Entries == 1..Len(cities)

\* the state of a cycle before the data source is called
CycleReset ==
    /\ df = [columns |-> {}, rows |-> <<>>]
    /\ fetched = "none"
    /\ fetchCalls = 0
    /\ task = [i \in Entries |-> "ready"]
    /\ payload = [i \in Entries |-> NoPayload]
    /\ posts = [i \in Entries |-> 0]
    /\ log = [i \in Entries |-> "none"]
    /\ response = [i \in Entries |-> "none"]
    /\ received = EmptyBag

\* process_single_city ends with the message it logged
TaskEnds(i, message) ==
    /\ task' = [task EXCEPT ![i] = "done"]
    /\ log' = [log EXCEPT ![i] = message]

\* except Exception in process_single_city: logged at the entry's boundary
CatchProcessError(i) ==
    /\ TaskEnds(i, "error_processing")
    /\ UNCHANGED pc

\* process_single_city up to the await of the POST: slice, validate,
\* compute metrics, build the payload and send the request.  The event loop
\* starts the coroutines handed to gather in argument order, and each runs
\* without interruption up to its first await.
ProcessStart(i) ==
    /\ pc = "gathering"
    /\ task[i] = "ready"
    /\ \A j \in 1..(i - 1) : task[j] # "ready"
    /\ UNCHANGED <<cities, df, fetched, fetchCalls, response, received,
                   vdf, vout>>
    /\ LET city == cities[i]
           city_data == Slice(df, city)
           validation_result == validate_data(city_data)
       IN  IF "city" \notin df.columns
           THEN CatchProcessError(i) /\ UNCHANGED <<payload, posts>>
           ELSE IF Empty(city_data)
           THEN /\ TaskEnds(i, "no_data")
                /\ UNCHANGED <<pc, payload, posts>>
           ELSE IF validation_result.raised \/ calculate_metrics_raises(df, city)
           THEN CatchProcessError(i) /\ UNCHANGED <<payload, posts>>
           ELSE /\ payload' = [payload EXCEPT ![i] =
                        Payload(city, validation_result,
                                calculate_metrics(df, city))]
                /\ posts' = [posts EXCEPT ![i] = posts[i] + 1]
                /\ task' = [task EXCEPT ![i] = "posting"]
                /\ UNCHANGED <<pc, log>>

\* a mutant of SendOutcome: an exception of the POST is not caught at the
\* entry's boundary; gather hands it to run_monitoring_cycle, which returns
SendOutcomeEscapes(i, answer) ==
    /\ response' = [response EXCEPT ![i] = answer]
    /\ IF answer = "200"
       THEN /\ received' = received (+) SetToBag({payload[i]})
            /\ TaskEnds(i, "recorded")
            /\ UNCHANGED pc
       ELSE IF answer = "non200"
       THEN /\ TaskEnds(i, "failed_to_send")
            /\ UNCHANGED <<received, pc>>
       ELSE /\ TaskEnds(i, "error_sending")
            /\ pc' = "returned"
            /\ UNCHANGED received

\* what _send_to_monitoring_service logs for the service's answer; the
\* service records the payload when it answers 200.  Neither a status other
\* than 200 nor an exception of the POST leaves the method.
SendOutcome(i, answer) ==
    /\ response' = [response EXCEPT ![i] = answer]
    /\ UNCHANGED pc
    /\ IF answer = "200"
       THEN /\ received' = received (+) SetToBag({payload[i]})
            /\ TaskEnds(i, "recorded")
       ELSE IF answer = "non200"
       THEN /\ TaskEnds(i, "failed_to_send")
            /\ UNCHANGED received
       ELSE /\ TaskEnds(i, "error_sending")
            /\ UNCHANGED received

\* the POST of entry i completes: status 200, another status, or an exception
SinkResponds(i) ==
    /\ pc = "gathering"
    /\ task[i] = "posting"
    /\ \E answer \in {"200", "non200", "exception"} : SendOutcome(i, answer)
    /\ UNCHANGED <<cities, df, fetched, fetchCalls, payload, posts, vdf, vout>>

\* a mutant of AllSettled: the wait ends with the first coroutine to finish
AnySettled == \E i \in Entries : task[i] = "done"

\* await asyncio.gather(...): every entry's coroutine has finished
AllSettled == \A i \in Entries : task[i] = "done"

GatherReturns ==
    /\ pc = "gathering"
    /\ AllSettled
    /\ pc' = "returned"
    /\ UNCHANGED <<cities, df, fetched, fetchCalls, task, payload, posts, log,
                   response, received, vdf, vout>>

\* a mutant of AfterFetch: the `return` after "No weather data fetched" is
\* missing, so an empty frame goes on to gather
AfterFetchNoReturn(outcome, b) ==
    IF outcome = "raise"
    THEN /\ fetched' = "raised"
         /\ pc' = "returned"
         /\ UNCHANGED df
    ELSE /\ df' = b
         /\ fetched' = IF Empty(b) THEN "empty" ELSE "batch"
         /\ pc' = "gathering"

\* the data source raised, or returned the batch b
AfterFetch(outcome, b) ==
    IF outcome = "raise"
    THEN /\ fetched' = "raised"
         /\ pc' = "returned"
         /\ UNCHANGED df
    ELSE /\ df' = b
         /\ fetched' = IF Empty(b) THEN "empty" ELSE "batch"
         /\ pc' = IF Empty(b) THEN "returned" ELSE "gathering"

(* ------------------------- inputs of the model ------------------------ *)

Cities == {"A", "B"}

SeqsUpTo(S, n) == UNION {[1..k -> S] : k \in 0..n}

Frames(records, columns) ==
    {[columns |-> columns, rows |-> rows] : rows \in SeqsUpTo(records, MaxRows)}

Record(city, timestamp, temperature, humidity, pressure, wind_speed, condition) ==
    [city |-> city, timestamp |-> timestamp, temperature |-> temperature,
     humidity |-> humidity, pressure |-> pressure, wind_speed |-> wind_speed,
     weather_condition |-> condition]

\* a reading that is complete, fresh and in range but for its temperature
Reading(city, temperature) ==
    Record(city, Some(0), temperature, Some(65), Some(1013), Some(5), Some("Clear"))

\* a row of a frame that has only the columns city, temperature, timestamp
\* (the incomplete frame of test_edge_cases)
IncompleteColumns == {"city", "temperature", "timestamp"}
IncompleteReading(city, temperature) ==
    Record(city, Some(0), temperature, Null, Null, Null, Null)

\* the batches the data source returns in the model
BatchRecords ==
    {Reading("A", Some(t)) : t \in {22, 25}}
    \cup {Reading("B", Some(t)) : t \in {22, 100}}
IncompleteBatchRecords == {IncompleteReading(c, Some(t)) : c \in Cities, t \in {22, 40}}
Batches ==
    Frames(BatchRecords, AllColumns)
    \cup Frames(IncompleteBatchRecords, IncompleteColumns)
    \cup {[columns |-> {}, rows |-> <<>>]}

CityLists == SeqsUpTo(Cities, MaxCities)

\* the frames the validator's methods are called on in the model
AnomalyRecords == {Reading(c, Some(t)) : c \in Cities, t \in {20, 22, 25, 100}}
PresenceRecords ==
    {Record("A", Some(0), t, h, p, Some(5), Some("Clear")) :
        t \in {Null, Some(22)}, h \in {Null, Some(65)}, p \in {Null, Some(1013)}}
PatternRecords ==
    {Record(c, Some(0), Some(t), Some(h), Some(1013), Some(5), Some("Clear")) :
        c \in Cities, t \in {22, 40}, h \in {5, 65}}
PressureRecords ==
    {Record(c, Some(0), Some(22), Some(65), p, Some(5), Some("Clear")) :
        c \in Cities, p \in {Null, Some(990), Some(1013)}}
FreshnessRecords ==
    {Record(c, Some(ts), Some(22), Some(65), Some(1013), Some(5), Some("Clear")) :
        c \in Cities, ts \in {0, -60, -61}}
IncompleteRecords ==
    {IncompleteReading(c, t) : c \in Cities, t \in {Null, Some(22), Some(40)}}
\* readings of one city with one measurement on or just outside the bounds
\* of its configured interval
RangeRecords ==
    {Record("A", Some(0), Some(t), Some(65), Some(1013), Some(5), Some("Clear")) :
        t \in {-51, 50}}
    \cup {Record("A", Some(0), Some(22), Some(h), Some(1013), Some(5), Some("Clear")) :
        h \in {-1, 100}}
    \cup {Record("A", Some(0), Some(22), Some(65), Some(p), Some(5), Some("Clear")) :
        p \in {869, 870, 1090, 1091}}
\* readings of one city taken at four different times
TimedPressureRecords ==
    {Record("A", Some(r[1]), Some(22), Some(65), Some(r[2]), Some(5), Some("Clear")) :
        r \in {<<-3, 990>>, <<-2, 1000>>, <<-1, 1015>>, <<0, 1030>>}}
ValidatorFrames ==
    Frames(AnomalyRecords, AllColumns)
    \cup Frames(RangeRecords, AllColumns)
    \cup Frames(TimedPressureRecords, AllColumns)
    \cup Frames(PresenceRecords, AllColumns)
    \cup Frames(PatternRecords, AllColumns)
    \cup Frames(PressureRecords, AllColumns)
    \cup Frames(FreshnessRecords, AllColumns)
    \cup Frames(IncompleteRecords, IncompleteColumns)

\* the limits check_data_freshness is called with in the model
MaxAges == {59, 60, 61}

NoFrame == [columns |-> {}, rows |-> <<>>]
NoCall == [method |-> "none", raised |-> FALSE, status |-> "", issues |-> <<>>,
           total_records |-> 0, cities |-> <<>>]

(* --------------------------- the monitoring cycle --------------------- *)

Init ==
    /\ cities \in CityLists
    /\ pc = "idle"
    /\ CycleReset
    /\ vdf = NoFrame
    /\ vout = NoCall

\* run_monitoring_cycle: call the data source once; an exception or an empty
\* frame ends the cycle, otherwise one coroutine per configured entry is
\* handed to asyncio.gather
RunMonitoringCycle ==
    /\ pc = "idle"
    /\ fetchCalls' = fetchCalls + 1
    /\ \E outcome \in {"raise", "frame"} : \E b \in Batches :
           /\ outcome = "raise" => b = NoFrame
           /\ AfterFetch(outcome, b)
    /\ UNCHANGED <<cities, task, payload, posts, log, response, received,
                   vdf, vout>>

\* start_monitoring_cycle: sleep, then run the next cycle; what the model
\* records about a cycle starts afresh
Sleep ==
    /\ pc = "returned"
    /\ pc' = "idle"
    /\ df' = NoFrame
    /\ fetched' = "none"
    /\ fetchCalls' = 0
    /\ task' = [i \in Entries |-> "ready"]
    /\ payload' = [i \in Entries |-> NoPayload]
    /\ posts' = [i \in Entries |-> 0]
    /\ log' = [i \in Entries |-> "none"]
    /\ response' = [i \in Entries |-> "none"]
    /\ received' = EmptyBag
    /\ UNCHANGED <<cities, vdf, vout>>

Next ==
    \/ RunMonitoringCycle
    \/ \E i \in Entries : ProcessStart(i)
    \/ \E i \in Entries : SinkResponds(i)
    \/ GatherReturns
    \/ Sleep

Spec == Init /\ [][Next]_vars

(* --------------------------- the validator alone ---------------------- *)

InitValidator ==
    /\ cities = <<>>
    /\ pc = "idle"
    /\ CycleReset
    /\ vdf \in ValidatorFrames
    /\ vout = NoCall

Returned(method, result) ==
    [method |-> method, raised |-> result.raised, status |-> result.status,
     issues |-> result.issues, total_records |-> result.total_records,
     cities |-> result.cities]

\* validator.validate_data(vdf)
CallValidateData ==
    /\ vout = NoCall
    /\ vout' = Returned("validate_data", validate_data(vdf))
    /\ UNCHANGED <<cities, pc, df, fetched, fetchCalls, task, payload, posts,
                   log, response, received, vdf>>

\* validator.detect_anomalies(vdf)
CallDetectAnomalies ==
    /\ vout = NoCall
    /\ vout' = Returned("detect_anomalies",
                   [raised |-> FALSE, status |-> "",
                    issues |-> detect_anomalies(vdf),
                    total_records |-> 0, cities |-> <<>>])
    /\ UNCHANGED <<cities, pc, df, fetched, fetchCalls, task, payload, posts,
                   log, response, received, vdf>>

\* validator.check_data_freshness(vdf, max_age_minutes)
CallCheckDataFreshness ==
    /\ vout = NoCall
    /\ \E max_age_minutes \in MaxAges :
           vout' = Returned("check_data_freshness",
                       [raised |-> check_data_freshness_raises(vdf),
                        status |-> "",
                        issues |-> IF check_data_freshness_raises(vdf) THEN <<>>
                                   ELSE check_data_freshness(vdf, max_age_minutes),
                        total_records |-> 0, cities |-> <<>>])
                   @@ [max_age_minutes |-> max_age_minutes]
    /\ UNCHANGED <<cities, pc, df, fetched, fetchCalls, task, payload, posts,
                   log, response, received, vdf>>

\* validator.validate_weather_patterns(vdf)
CallValidateWeatherPatterns ==
    /\ vout = NoCall
    /\ vout' = Returned("validate_weather_patterns",
                   [raised |-> validate_weather_patterns_raises(vdf),
                    status |-> "",
                    issues |-> IF validate_weather_patterns_raises(vdf) THEN <<>>
                               ELSE validate_weather_patterns(vdf),
                    total_records |-> 0, cities |-> <<>>])
    /\ UNCHANGED <<cities, pc, df, fetched, fetchCalls, task, payload, posts,
                   log, response, received, vdf>>

\* integrator._calculate_metrics(vdf, city)
CallCalculateMetrics ==
    /\ vout = NoCall
    /\ \E city \in Cities :
           vout' = Returned("calculate_metrics",
                       [raised |-> calculate_metrics_raises(vdf, city),
                        status |-> "", issues |-> <<>>,
                        total_records |-> 0, cities |-> <<>>])
                   @@ [city |-> city,
                       metrics |-> IF calculate_metrics_raises(vdf, city)
                                   THEN NoMetrics
                                   ELSE calculate_metrics(vdf, city)]
    /\ UNCHANGED <<cities, pc, df, fetched, fetchCalls, task, payload, posts,
                   log, response, received, vdf>>

NextValidator ==
    \/ CallValidateData
    \/ CallDetectAnomalies
    \/ CallCheckDataFreshness
    \/ CallValidateWeatherPatterns
    \/ CallCalculateMetrics

SpecValidator == InitValidator /\ [][NextValidator]_vars

(* ------------------------------ properties ---------------------------- *)

\* entry i's own pipeline does not raise on the batch: its city has rows,
\* and neither validation nor the metrics raise on them
PipelineSound(i) ==
    /\ "city" \in df.columns
    /\ ~Empty(Slice(df, cities[i]))
    /\ ~validate_data(Slice(df, cities[i])).raised
    /\ ~calculate_metrics_raises(df, cities[i])

Failed(k) == log[k] \in {"failed_to_send", "error_sending", "error_processing"}

\* C1: fan-out isolation.  When the cycle has returned and entry k has
\* failed (its POST was refused or raised, or its processing raised), every
\* other entry whose own pipeline does not raise has finished, has sent its
\* one POST and has the service's answer; where that answer is 200 its
\* payload is among those the service recorded and it logged success.
C1_FanOutIsolation ==
    (pc = "returned" /\ fetched = "batch") =>
        \A k \in Entries : \A j \in Entries \ {k} :
            (Failed(k) /\ PipelineSound(j)) =>
                /\ task[j] = "done"
                /\ posts[j] = 1
                /\ response[j] # "none"
                /\ payload[j].city = cities[j]
                /\ response[j] = "200" =>
                       /\ BagIn(payload[j], received)
                       /\ log[j] = "recorded"

\* a returned cycle in which one entry's POST failed and another entry's
\* payload was recorded
C1_Witness ==
    /\ pc = "returned"
    /\ \E k \in Entries : \E j \in Entries \ {k} :
           /\ log[k] \in {"failed_to_send", "error_sending"}
           /\ cities[k] # cities[j]
           /\ log[j] = "recorded"
           /\ BagIn(payload[j], received)

\* the payloads for city c that the service recorded in this cycle
Delivered(c) ==
    LET ps == {p \in BagToSet(received) : p.city = c}
        RECURSIVE Count(_)
        Count(S) == IF S = {} THEN 0
                    ELSE LET p == CHOOSE q \in S : TRUE
                         IN  CopiesIn(p, received) + Count(S \ {p})
    IN  Count(ps)

\* C2: at-most-once delivery.  In a cycle the service records at most one
\* payload per city, whatever the configured list, and no entry sends more
\* than one POST.
C2_AtMostOncePerEntity ==
    /\ \A c \in Cities : Delivered(c) <= 1
    /\ \A i \in Entries : posts[i] <= 1

\* C3: when the data source raised or returned an empty frame, the cycle has
\* returned after that single call: no entry was processed, no POST was
\* sent, nothing was recorded by the service.
C3_SourceFailureSkipsCycle ==
    fetched \in {"raised", "empty"} =>
        /\ pc = "returned"
        /\ fetchCalls = 1
        /\ received = EmptyBag
        /\ \A i \in Entries :
               task[i] = "ready" /\ posts[i] = 0 /\ log[i] = "none"

\* a cycle over a non-empty list of cities whose data source call raised
C3_Witness ==
    /\ fetched = "raised"
    /\ pc = "returned"
    /\ cities # <<>>

\* C4: fan-in barrier.  Outside the gather no entry is awaiting its POST,
\* and a cycle that fetched a batch has returned only with every entry's
\* coroutine finished.
C4_FanInBarrier ==
    pc # "gathering" =>
        /\ \A i \in Entries : task[i] # "posting"
        /\ (pc = "returned" /\ fetched = "batch") =>
               \A i \in Entries : task[i] = "done"

\* a returned cycle of two entries, one ended by an exception of its POST
\* and one recorded
C4_Witness ==
    /\ pc = "returned"
    /\ Len(cities) >= 2
    /\ \E i \in Entries : log[i] = "error_sending"
    /\ \E i \in Entries : log[i] = "recorded"

\* C5: a verdict returned by validate_data has status failed exactly when
\* its issue list is non-empty, and passed exactly when it is empty.
C5_StatusIffIssues ==
    (vout.method = "validate_data" /\ ~vout.raised) =>
        /\ vout.status \in {"failed", "passed"}
        /\ vout.status = "failed" <=> vout.issues # <<>>
        /\ vout.status = "passed" <=> vout.issues = <<>>

\* a failed verdict with exactly one issue
C5_Witness ==
    /\ vout.method = "validate_data"
    /\ ~vout.raised
    /\ vout.status = "failed"
    /\ Len(vout.issues) = 1

Malformed(d) ==
    \/ AllColumns \ d.columns # {}
    \/ \E i \in 1..Len(d.rows) : \E col \in d.columns : CellIsNull(d, i, col)

\* C7: validate_data never raises on a non-empty malformed frame: it
\* returns a failed verdict with a presence issue.
C7_NeverRaisesOnMalformed ==
    (vout.method = "validate_data" /\ vdf.rows # <<>> /\ Malformed(vdf)) =>
        /\ ~vout.raised
        /\ vout.status = "failed"
        /\ \E k \in 1..Len(vout.issues) :
               /\ vout.issues[k].kind = "quality"
               /\ vout.issues[k].city = "expect_column_values_to_not_be_null"

AnomaliesOf(issues, city) ==
    SelectSeq(issues, LAMBDA x : x.kind = "anomaly" /\ x.city = city)

\* C8: the anomaly issues of an entry's payload are those that
\* detect_anomalies finds for its city over the whole batch, in every
\* batch whose temperatures have a non-zero MAD.
C8_AnomalyStatsSpanBatch ==
    \A i \in Entries :
        (posts[i] = 1
            /\ Mad4(Values(Column(df, "temperature"))) # 0) =>
            AnomaliesOf(payload[i].issues, cities[i])
                = AnomaliesOf(detect_anomalies(df), cities[i])

\* C9: detect_anomalies emits no anomaly issue for a column whose median
\* absolute deviation is 0.
C9_DegenerateMadSkipped ==
    vout.method = "detect_anomalies" =>
        \A k \in 1..Len(RuleColumns) :
            LET col == RuleColumns[k]
                cells == Column(vdf, col)
            IN  (col \in vdf.columns /\ cells # <<>> /\ ~HasNull(cells)
                    /\ Mad4(Values(cells)) = 0) =>
                    \A n \in 1..Len(vout.issues) : vout.issues[n].column # col

\* the temperatures of the frame, as a bag
Temperatures(d) ==
    LET xs == Values(Column(d, "temperature"))
    IN  [v \in {xs[i] : i \in 1..Len(xs)} |->
            Cardinality({i \in 1..Len(xs) : xs[i] = v})]

\* the one anomaly issue for the record of the frame that holds temperature t
OnlyOutlier(d, t) ==
    \E i \in 1..Len(d.rows) :
        /\ d.rows[i].temperature = Some(t)
        /\ vout.issues = <<Issue("anomaly", "temperature", d.rows[i].city, t)>>

TwoRecordBatch == <<Reading("A", Some(20)), Reading("A", Some(100))>>

\* C10 as claimed: temperature 100 against 22 and 25 gives the one issue
\* for the record with 100; the two-record batch of city A with 20 and 100
\* gives an issue for A, temperature, 100; temperatures 20, 22, 25 give none.
C10_OutlierFlagged_Claimed ==
    vout.method = "detect_anomalies" =>
        /\ Temperatures(vdf) = (100 :> 1) @@ (22 :> 1) @@ (25 :> 1) =>
               OnlyOutlier(vdf, 100)
        /\ vdf.rows = TwoRecordBatch =>
               \E n \in 1..Len(vout.issues) :
                   vout.issues[n] = Issue("anomaly", "temperature", "A", 100)
        /\ Temperatures(vdf) = (20 :> 1) @@ (22 :> 1) @@ (25 :> 1) =>
               vout.issues = <<>>

\* C10 as the code has it: temperature 100 against 22 and 25 gives the one
\* issue for the record with 100; the two-record batch 20 and 100 gives no
\* issue (each value is 0.6745 MAD from the median 60); temperatures 20,
\* 22, 25 give none.
C10_OutlierFlagged ==
    vout.method = "detect_anomalies" =>
        /\ Temperatures(vdf) = (100 :> 1) @@ (22 :> 1) @@ (25 :> 1) =>
               OnlyOutlier(vdf, 100)
        /\ vdf.rows = TwoRecordBatch => vout.issues = <<>>
        /\ Temperatures(vdf) = (20 :> 1) @@ (22 :> 1) @@ (25 :> 1) =>
               vout.issues = <<>>

C10_Witness ==
    /\ vout.method = "detect_anomalies"
    /\ Temperatures(vdf) = (100 :> 1) @@ (22 :> 1) @@ (25 :> 1)
    /\ vdf.rows[1].city # vdf.rows[2].city
    /\ OnlyOutlier(vdf, 100)

\* the verdict holds a range issue for the column
HasRangeIssue(issues, col) ==
    \E k \in 1..Len(issues) :
        /\ issues[k].kind = "quality"
        /\ issues[k].city = "expect_column_values_to_be_between"
        /\ issues[k].column = col

\* some non-null value of the column lies outside the column's interval
OutOfRange(d, col) ==
    \E i \in 1..Len(d.rows) :
        /\ d.rows[i][col] # Null
        /\ \/ d.rows[i][col][1] < validation_rules[col].min
           \/ d.rows[i][col][1] > validation_rules[col].max

\* C11: range checks cover temperature, humidity and pressure.  In a
\* verdict of validate_data on a frame with all columns, each of the three
\* columns has a range issue exactly when one of its non-null values lies
\* outside [min, max] (a value on a bound gives none), and a range issue
\* makes the verdict failed.
C11_RangeChecksCoverMeasurements ==
    (vout.method = "validate_data" /\ ~vout.raised
        /\ vdf.columns = AllColumns) =>
        \A k \in 1..Len(RuleColumns) :
            /\ HasRangeIssue(vout.issues, RuleColumns[k])
                   <=> OutOfRange(vdf, RuleColumns[k])
            /\ OutOfRange(vdf, RuleColumns[k]) => vout.status = "failed"

\* every required column is in the frame and no cell is null
Complete(d) ==
    /\ d.columns = AllColumns
    /\ \A i \in 1..Len(d.rows) : \A col \in AllColumns : ~CellIsNull(d, i, col)

InRange(d) == \A k \in 1..Len(RuleColumns) : ~OutOfRange(d, RuleColumns[k])

\* the most recent timestamp of every city of the frame is at most
\* max_age_minutes old
Fresh(d, max_age_minutes) ==
    \A i \in 1..Len(d.rows) :
        \E j \in 1..Len(d.rows) :
            /\ d.rows[j].city = d.rows[i].city
            /\ d.rows[j].timestamp # Null
            /\ current_time - d.rows[j].timestamp[1] <= max_age_minutes

\* no value of a rule column has a modified z-score above the threshold
NoExtremeSpread(d) ==
    \A k \in 1..Len(RuleColumns) : ColumnAnomalies(d, RuleColumns[k]) = <<>>

\* no city has a temperature above 35 on one record and a humidity below 10
\* on the same or another record
NoHotDry(d) ==
    \A i, j \in 1..Len(d.rows) :
        ~ /\ d.rows[i].city = d.rows[j].city
          /\ d.rows[i].temperature # Null /\ d.rows[i].temperature[1] > 35
          /\ d.rows[j].humidity # Null /\ d.rows[j].humidity[1] < 10

\* no two records of a city that follow one another in the frame differ by
\* more than 20 in pressure
NoPressureJump(d) ==
    \A i \in 1..Len(d.rows) :
        LET rows == Slice(d, d.rows[i].city).rows
        IN  \A n \in 2..Len(rows) :
                (rows[n].pressure # Null /\ rows[n - 1].pressure # Null) =>
                    Abs(rows[n].pressure[1] - rows[n - 1].pressure[1]) <= 20

\* C12 as claimed: on a non-empty frame that is complete, in range and fresh
\* and whose columns show no extreme spread, validate_data returns passed
\* with an empty issue list.
C12_CleanSlicePasses_Claimed ==
    (vout.method = "validate_data" /\ vdf.rows # <<>>
        /\ Complete(vdf) /\ InRange(vdf)
        /\ Fresh(vdf, default_max_age_minutes)
        /\ NoExtremeSpread(vdf)) =>
        /\ ~vout.raised
        /\ vout.status = "passed"
        /\ vout.issues = <<>>

\* C12 as the code has it: on a non-empty frame that is complete, in range
\* and fresh, whose columns show no extreme spread, and in which no city has
\* a hot and a dry record or a pressure jump above 20 between records that
\* follow one another, validate_data returns passed with an empty issue list.
C12_CleanSlicePasses ==
    (vout.method = "validate_data" /\ vdf.rows # <<>>
        /\ Complete(vdf) /\ InRange(vdf)
        /\ Fresh(vdf, default_max_age_minutes)
        /\ NoExtremeSpread(vdf)
        /\ NoHotDry(vdf) /\ NoPressureJump(vdf)) =>
        /\ ~vout.raised
        /\ vout.status = "passed"
        /\ vout.issues = <<>>

\* a passed verdict on two or more records, one with a temperature on the
\* upper bound of its interval
C12_Witness ==
    /\ vout.method = "validate_data"
    /\ Len(vdf.rows) >= 2
    /\ Complete(vdf) /\ InRange(vdf)
    /\ Fresh(vdf, default_max_age_minutes)
    /\ NoExtremeSpread(vdf)
    /\ NoHotDry(vdf) /\ NoPressureJump(vdf)
    /\ \E i \in 1..Len(vdf.rows) :
           vdf.rows[i].temperature = Some(validation_rules.temperature.max)
    /\ vout.status = "passed"
    /\ vout.issues = <<>>

\* the issues of the list that name the city
IssuesFor(issues, city) == SelectSeq(issues, LAMBDA x : x.city = city)

FlaggedCities(issues) == {issues[k].city : k \in 1..Len(issues)}

\* the city has a timestamp, and even its most recent one is more than
\* max_age_minutes old
MostRecentOlderThan(d, city, max_age_minutes) ==
    LET stamped == {i \in 1..Len(d.rows) :
                       d.rows[i].city = city /\ d.rows[i].timestamp # Null}
    IN  /\ stamped # {}
        /\ \A i \in stamped :
               current_time - d.rows[i].timestamp[1] > max_age_minutes

\* C13: freshness.  check_data_freshness(d, m) returns exactly one issue
\* for a city whose most recent timestamp is more than m minutes old (an
\* age equal to m is not flagged, an old record beside a fresh one is
\* ignored) and none for any other city; the cities flagged for a larger
\* limit are among those flagged for m.
C13_FreshnessMonotone ==
    (vout.method = "check_data_freshness" /\ ~vout.raised) =>
        /\ \A k \in 1..Len(vout.issues) : vout.issues[k].kind = "stale"
        /\ \A c \in Cities :
               Len(IssuesFor(vout.issues, c))
                   = IF MostRecentOlderThan(vdf, c, vout.max_age_minutes)
                     THEN 1 ELSE 0
        /\ \A larger \in MaxAges :
               larger > vout.max_age_minutes =>
                   FlaggedCities(check_data_freshness(vdf, larger))
                       \subseteq FlaggedCities(vout.issues)

\* a call with the limit 60 on a frame where one city has only a record 61
\* minutes old (flagged once) and another has a record 61 minutes old
\* beside one exactly 60 minutes old (not flagged)
C13_Witness ==
    /\ vout.method = "check_data_freshness"
    /\ vout.max_age_minutes = 60
    /\ \E c, e \in Cities :
           /\ c # e
           /\ Len(IssuesFor(vout.issues, c)) = 1
           /\ IssuesFor(vout.issues, c)[1].value = 61
           /\ IssuesFor(vout.issues, e) = <<>>
           /\ \E i, j \in 1..Len(vdf.rows) :
                  /\ vdf.rows[i].city = e /\ vdf.rows[i].timestamp = Some(-61)
                  /\ vdf.rows[j].city = e /\ vdf.rows[j].timestamp = Some(-60)

\* every record has a timestamp and a pressure, and no two records of a city
\* have the same timestamp
TimeOrdered(d) ==
    /\ d.columns = AllColumns
    /\ \A i \in 1..Len(d.rows) :
           d.rows[i].timestamp # Null /\ d.rows[i].pressure # Null
    /\ \A i, j \in 1..Len(d.rows) :
           (i # j /\ d.rows[i].city = d.rows[j].city) =>
               d.rows[i].timestamp # d.rows[j].timestamp

\* the absolute pressure differences between the records of the city that
\* are consecutive in timestamp order
DiffsInTimeOrder(d, city) ==
    LET byTime == SortSeq(Slice(d, city).rows,
                      LAMBDA a, b : a.timestamp[1] < b.timestamp[1])
    IN  {Abs(byTime[n].pressure[1] - byTime[n - 1].pressure[1]) :
            n \in 2..Len(byTime)}

PressureIssuesFor(issues, city) ==
    SelectSeq(issues, LAMBDA x : x.kind = "pressure_change" /\ x.city = city)

\* C14: rapid pressure change.  validate_weather_patterns returns, for each
\* city, one pressure issue citing the largest absolute pressure difference
\* between records consecutive in timestamp order when that difference
\* exceeds 20, whatever the order of the records in the frame, and no
\* pressure issue otherwise (none for a city with a single record).
C14_PressureChangeInTimeOrder ==
    (vout.method = "validate_weather_patterns" /\ ~vout.raised
        /\ TimeOrdered(vdf)) =>
        \A c \in Cities :
            LET diffs == DiffsInTimeOrder(vdf, c)
                largest == CHOOSE x \in diffs : \A y \in diffs : y <= x
            IN  PressureIssuesFor(vout.issues, c)
                    = IF diffs # {} /\ largest > 20
                      THEN <<Issue("pressure_change", "pressure", c, largest)>>
                      ELSE <<>>

\* the records of the frame that belong to the city
RecordsOf(d, city) == {i \in 1..Len(d.rows) : d.rows[i].city = city}

HotRecord(d, i) ==
    d.rows[i].temperature # Null /\ d.rows[i].temperature[1] > 35

DryRecord(d, i) ==
    d.rows[i].humidity # Null /\ d.rows[i].humidity[1] < 10

CombinationIssuesFor(issues, city) ==
    SelectSeq(issues,
        LAMBDA x : x.kind = "temperature_humidity" /\ x.city = city)

\* C15: temperature-humidity co-occurrence.  validate_weather_patterns
\* returns exactly one combination issue for a city when some record of the
\* city has a temperature above 35 and some record of the city, the same or
\* another, has a humidity below 10, and none for a city where only one of
\* the two occurs; the records of other cities do not count.
C15_HotDryCoOccurrence ==
    (vout.method = "validate_weather_patterns" /\ ~vout.raised
        /\ vdf.columns = AllColumns) =>
        \A c \in Cities :
            Len(CombinationIssuesFor(vout.issues, c))
                = IF /\ \E i \in RecordsOf(vdf, c) : HotRecord(vdf, i)
                     /\ \E j \in RecordsOf(vdf, c) : DryRecord(vdf, j)
                  THEN 1 ELSE 0

\* one city is flagged for a hot record and a dry record none of which is
\* both, while the other city, with a hot record only, is not flagged
C15_Witness ==
    /\ vout.method = "validate_weather_patterns"
    /\ ~vout.raised
    /\ \E c, e \in Cities :
           /\ c # e
           /\ Len(CombinationIssuesFor(vout.issues, c)) = 1
           /\ \A i \in RecordsOf(vdf, c) : ~(HotRecord(vdf, i) /\ DryRecord(vdf, i))
           /\ CombinationIssuesFor(vout.issues, e) = <<>>
           /\ \E i \in RecordsOf(vdf, e) : HotRecord(vdf, i)

\* the null cells of the city's records in the four measurement columns
MissingMeasurements(d, city) ==
    Cardinality({<<i, k>> \in RecordsOf(d, city) \X (1..Len(MetricColumns)) :
                    d.rows[i][MetricColumns[k]] = Null})

\* C16: data completeness.  For a city with records, data_completeness is
\* 100 * (1 - missing / total) with missing the null cells of the four
\* measurement columns and total the number of records times four, and it
\* lies in 0..100.  The metric is held as the pair missing_cells,
\* total_cells, and two ratios are equal when their cross products are.
C16_CompletenessOverMeasurements ==
    (vout.method = "calculate_metrics" /\ ~vout.raised
        /\ ~vout.metrics.empty) =>
        LET missing == MissingMeasurements(vdf, vout.city)
            total == Cardinality(RecordsOf(vdf, vout.city)) * Len(MetricColumns)
        IN  /\ vout.metrics.missing_cells * total
                   = missing * vout.metrics.total_cells
            /\ vout.metrics.missing_cells >= 0
            /\ vout.metrics.missing_cells <= vout.metrics.total_cells

====
